---- MODULE Spec2Model ----
(***************************************************************************)
(* State-machine models of the tutorial scripts of this repository:        *)
(*   quickstart_tutorial.py      (Spec, SpecLoader)                         *)
(*   autograd_tutorial.py        (SpecAutograd)                             *)
(*   dataquickstart_tutorial.py  (SpecData)                                 *)
(* Each script is a separate, single-threaded program; each specification  *)
(* runs one of them and leaves the variables of the others at rest.        *)
(*                                                                         *)
(* Tensors of the network are symbolic: a parameter tensor is identified   *)
(* by its name, the random draw that initialised it and the number of      *)
(* optimizer steps applied to it; a gradient is the list of the losses     *)
(* whose backward pass added into it.                                      *)
(***************************************************************************)
EXTENDS Integers, Sequences, FiniteSets, TLC

VARIABLES
    \* ---- quickstart_tutorial.py ----
    pc,            \* position of the script
    trainSize,     \* len(training_data): samples in the FashionMNIST training files
    testSize,      \* len(test_data)
    model,         \* the module bound to `model`: parameter name -> tensor
    grad,          \* the .grad of the parameters of `model`
    optimizer,     \* Adam's state
    t,             \* loop variable of `for t in range(epochs)`
    batch,         \* enumerate() index inside train()
    pos,           \* samples the running dataloader iterator has handed out
    Xlen,          \* len(X) of the batch in hand
    pred,          \* pred of the batch in hand
    loss,          \* loss of the batch in hand (train)
    test_loss,     \* local of test(): a rational num/den
    correct,       \* local of test(): a rational num/den
    training,      \* model.training: the mode model.eval() switches off
    file,          \* contents of model.pth
    stdout,           \* what the script has printed
    \* history of the quickstart run
    trainSteps,    \* <<batch, step>> of every step the running/last train() call took
    consumed,      \* sample ranges handed to the running/last train() call
    trainReturns,  \* train() calls that returned
    testReturns,   \* test() calls that returned
    applied,       \* the gradient terms the last optimizer.step() applied
    savedFrom,     \* the parameters `model` had when torch.save ran
    batchLosses,   \* per-batch loss values test() has added up in this call
    raisedAt,      \* step at which an exception left the script
    \* ---- one pass over a DataLoader of the real FashionMNIST files ----
    dlSize,        \* len(dataloader.dataset)
    dlPos,         \* samples the iterator has handed out
    dlLen,         \* len(X) of the batch last yielded, 0 before the first
    dlCount,       \* batches yielded so far
    \* ---- autograd_tutorial.py ----
    agPc,          \* position of the script
    x,             \* ones(5), later the point of the gradient descent
    y,             \* zeros(3), later y = f(x)
    w,             \* randn(5,3): the random draw
    b,             \* randn(3): the random draw
    z,             \* matmul(x,w)+b: whether it tracks gradients, and its graph
    z_det,         \* z.detach()
    wGrad,         \* w.grad
    bGrad,         \* b.grad
    gradEnabled,   \* FALSE inside `with torch.no_grad()`
    inp,           \* eye(5)
    out,           \* (inp+1).pow(2)
    inpGrad,       \* inp.grad
    xGrad,         \* x.grad
    graphs,        \* autograd graph of loss, out, y: "none", "live" or "freed"
    i,             \* loop variable of `for i in range(15)`
    agStdout,      \* what the script has printed
    \* history of the autograd run
    sinceZero,     \* backward calls into inp.grad since it was created or zeroed
    xPrev,         \* x at the start of the running iteration
    xStart,        \* x before the first iteration
    backwardCalls, \* per graph: retain_graph of every backward call since it was built
    agRaisedAt,    \* step at which an exception left the script
    \* ---- dataquickstart_tutorial.py: CustomImageDataset ----
    dsPc,          \* "construct", "ready", "returned" or "raised"
    csv,           \* the lines of the annotations file: <<file name, label>>
    disk,          \* the image files on disk: path -> contents
    args,          \* the arguments given to __init__
    self,          \* the attributes of the dataset object
    idx,           \* the argument of the __getitem__ call
    result         \* how the call ended: the sample returned or the exception raised

env == <<trainSize, testSize>>
net == <<model, grad, optimizer, training>>
loc == <<batch, pos, Xlen, pred, loss>>
tst == <<test_loss, correct, batchLosses>>
hist == <<trainSteps, consumed, trainReturns, testReturns, applied, savedFrom, raisedAt>>

qsVars == <<pc, env, net, t, loc, tst, file, stdout, hist>>

dlVars == <<dlSize, dlPos, dlLen, dlCount>>

agVars == <<agPc, x, y, w, b, z, z_det, wGrad, bGrad, gradEnabled, inp, out, inpGrad,
            xGrad, graphs, i, agStdout, sinceZero, xPrev, xStart, backwardCalls,
            agRaisedAt>>

dsVars == <<dsPc, csv, disk, args, self, idx, result>>

\* what a step of the quickstart script leaves alone
otherScripts == <<dlVars, agVars, dsVars>>

vars == <<qsVars, dlVars, agVars, dsVars>>

(***************************************************************************)
(* Bounds of the model and constants of the program                        *)
(***************************************************************************)
MaxBatches == 2     \* a dataset holds at most this many batches
MaxLoss == 2        \* a per-batch loss value is one of 0..MaxLoss
NumSeeds == 2       \* distinct outcomes of a random initialisation

batch_size == 64
epochs == 5
LogEvery == 100
TrainSamples == 60000   \* Fashion-MNIST: training examples
TestSamples == 10000    \* Fashion-MNIST: test examples

Min(a, c) == IF a <= c THEN a ELSE c

\* Sizes of a dataset on disk: for each number of batches, the size whose last
\* batch holds half a batch and the size whose last batch is whole.
DatasetSizes ==
    {(k - 1) * batch_size + r : k \in 1..MaxBatches, r \in {batch_size \div 2, batch_size}}

LossValues == 0..MaxLoss

(***************************************************************************)
(* DataLoader(dataset, batch_size=batch_size): sequential sampler,         *)
(* drop_last=False.                                                        *)
(***************************************************************************)
\* len(X) of the batch the iterator yields at position p of a dataset of n samples
BatchLen(n, p) == Min(batch_size, n - p)

\* mutant: drop_last=True, a last batch short of batch_size is not yielded
ExhaustedDropLast(n, p) == n - p < batch_size

\* the iterator is exhausted
Exhausted(n, p) == p >= n

\* the sample ranges <<lo, hi>> (hi exclusive) one full pass yields
RECURSIVE BatchesFrom(_, _)
BatchesFrom(n, p) ==
    IF Exhausted(n, p) THEN <<>>
    ELSE <<<<p, p + BatchLen(n, p)>>>> \o BatchesFrom(n, p + BatchLen(n, p))

AllBatches(n) == BatchesFrom(n, 0)

(***************************************************************************)
(* NeuralNetwork: its parameter tensors                                    *)
(***************************************************************************)
ParamKeys == {"nn_layers.0.weight", "nn_layers.0.bias",
              "nn_layers.2.weight", "nn_layers.2.bias",
              "nn_layers.4.weight", "nn_layers.4.bias"}

KeyOrder == <<"nn_layers.0.weight", "nn_layers.0.bias",
              "nn_layers.2.weight", "nn_layers.2.bias",
              "nn_layers.4.weight", "nn_layers.4.bias">>

\* a parameter tensor: the draw that initialised it and the steps applied since
Tensor(key, seed, steps) == [key |-> key, seed |-> seed, steps |-> steps]

\* NeuralNetwork(): every nn.Linear draws its weight and bias at random
NeuralNetwork(seed) == [k \in ParamKeys |-> Tensor(k, seed, 0)]

NoModel == [k \in ParamKeys |-> Tensor(k, 0, 0)]

NoPred == [epoch |-> -1, batch |-> -1, version |-> -1]

\* model(X): the prediction depends on the batch and on the current parameters
Forward(m, e, k) == [epoch |-> e, batch |-> k, version |-> m["nn_layers.0.weight"].steps]

NoGrad == [isNone |-> TRUE, terms |-> <<>>]

\* mutant: zero_grad() that leaves the accumulated gradient in place
ZeroGradKeeps(g) == g

\* optimizer.zero_grad(): zeroes every grad that exists
ZeroGrad(g) == IF g.isNone THEN g ELSE [isNone |-> FALSE, terms |-> <<>>]

\* loss.backward(): adds the gradient of loss into .grad
Backward(g, l) == [isNone |-> FALSE, terms |-> Append(g.terms, l)]

\* optimizer.step(): Adam updates every parameter that has a grad
AdamStep(m, g) ==
    IF g.isNone THEN m
    ELSE [k \in DOMAIN m |-> Tensor(m[k].key, m[k].seed, m[k].steps + 1)]

(***************************************************************************)
(* Rationals num/den for the locals test() divides                         *)
(***************************************************************************)
Rat(n, d) == [num |-> n, den |-> d]
RatAddInt(r, k) == Rat(r.num + k * r.den, r.den)
RatDivInt(r, k) == Rat(r.num, r.den * k)

(***************************************************************************)
(* torch.save / torch.load / state_dict / load_state_dict                  *)
(***************************************************************************)
\* model.state_dict(): parameter name -> tensor
StateDict(m) == [k \in ParamKeys |-> m[k]]

\* torch.save(obj, f): the ordered dictionary written entry by entry
Pickle(sd) == [j \in 1..Len(KeyOrder) |-> <<KeyOrder[j], sd[KeyOrder[j]]>>]

NoFile == <<>>

\* what an interrupted torch.save may leave behind: any proper prefix
Truncated(f) == {SubSeq(f, 1, n) : n \in 0..(Len(f) - 1)}

\* torch.load(f) succeeds on a completely written file
Loadable(f) == Len(f) = Len(KeyOrder)

\* torch.load(f): the dictionary read back entry by entry
Unpickle(f) ==
    [k \in {f[j][1] : j \in 1..Len(f)} |->
        f[CHOOSE j \in 1..Len(f) : f[j][1] = k][2]]

\* load_state_dict(sd), strict: the keys must be the module's own
KeysMatch(m, sd) == DOMAIN sd = DOMAIN m

\* mutant: load_state_dict that checks the keys and copies nothing
LoadStateDictNoCopy(m, sd) == m

\* load_state_dict(sd): every parameter takes the value stored under its name
LoadStateDict(m, sd) == [k \in DOMAIN m |-> sd[k]]

(***************************************************************************)
(* quickstart_tutorial.py: the script, statement by statement              *)
(***************************************************************************)
\* the five steps train() takes for one batch
TrainStepOrder == <<"forward", "loss", "zero_grad", "backward", "step">>

\* the statements that call into the framework and may raise
Fallible == {"download_train", "download_test", "make_loaders", "peek", "make_model",
             "make_optimizer", "train_fetch", "train_forward", "train_loss",
             "train_zero_grad", "train_backward", "train_step", "train_log",
             "test_enter", "test_fetch", "test_forward", "test_accumulate",
             "save", "new_model", "load", "predict"}

\* mutant: a try/except around the epoch loop swallows what train() and test()
\* raise, and the script goes on after the loop
PropagateCaught(step) ==
    IF step \in {"train_fetch", "train_forward", "train_loss", "train_zero_grad",
                 "train_backward", "train_step", "train_log", "test_enter",
                 "test_fetch", "test_forward", "test_accumulate"}
    THEN "print_done"
    ELSE "raised"

\* where control goes when a statement raises: no try/except anywhere, the
\* exception leaves the script
Propagate(step) == "raised"

\* the script's variables before its first statement, at position p
QsStart(p) ==
    /\ pc = p
    /\ model = NoModel
    /\ grad = NoGrad
    /\ optimizer = [steps |-> 0]
    /\ training = TRUE
    /\ t = 0
    /\ batch = -1
    /\ pos = 0
    /\ Xlen = 0
    /\ pred = NoPred
    /\ loss = NoPred
    /\ test_loss = Rat(0, 1)
    /\ correct = Rat(0, 1)
    /\ batchLosses = <<>>
    /\ file = NoFile
    /\ stdout = <<>>
    /\ trainSteps = <<>>
    /\ consumed = <<>>
    /\ trainReturns = 0
    /\ testReturns = 0
    /\ applied = <<>>
    /\ savedFrom = NoModel
    /\ raisedAt = "none"

QsInit ==
    /\ QsStart("download_train")
    /\ trainSize \in DatasetSizes
    /\ testSize \in DatasetSizes

\* the script is not run
QsIdle ==
    /\ QsStart("idle")
    /\ trainSize = TrainSamples
    /\ testSize = TestSamples

\* lines 99-105: training_data = datasets.FashionMNIST(train=True, download=True, ...)
DownloadTrain ==
    /\ pc = "download_train"
    /\ pc' = "download_test"
    /\ UNCHANGED <<env, net, t, loc, tst, file, stdout, hist, otherScripts>>

\* lines 108-114: test_data = datasets.FashionMNIST(train=False, download=True, ...)
DownloadTest ==
    /\ pc = "download_test"
    /\ pc' = "make_loaders"
    /\ UNCHANGED <<env, net, t, loc, tst, file, stdout, hist, otherScripts>>

\* lines 121-125: the two DataLoaders
MakeLoaders ==
    /\ pc = "make_loaders"
    /\ pc' = "peek"
    /\ UNCHANGED <<env, net, t, loc, tst, file, stdout, hist, otherScripts>>

\* lines 127-130: print the shape of the first test batch and break
Peek ==
    /\ pc = "peek"
    /\ stdout' = Append(stdout, <<"Shape", BatchLen(testSize, 0)>>)
    /\ pc' = "make_model"
    /\ UNCHANGED <<env, net, t, loc, tst, file, hist, otherScripts>>

\* lines 145-167: model = NeuralNetwork().to(device)
MakeModel ==
    /\ pc = "make_model"
    /\ \E seed \in 1..NumSeeds : model' = NeuralNetwork(seed)
    /\ stdout' = Append(stdout, <<"Using device", 0>>)
    /\ pc' = "make_optimizer"
    /\ UNCHANGED <<env, grad, optimizer, training, t, loc, tst, file, hist, otherScripts>>

\* lines 184-185: loss_fn = nn.BCELoss(); optimizer = torch.optim.Adam(...)
MakeOptimizer ==
    /\ pc = "make_optimizer"
    /\ optimizer' = [steps |-> 0]
    /\ pc' = "epoch_loop"
    /\ UNCHANGED <<env, model, grad, training, t, loc, tst, file, stdout, hist, otherScripts>>

\* mutant: an off-by-one in the epoch count
MoreEpochsOffByOne == t <= epochs

\* range(epochs) has another value for t
MoreEpochs == t < epochs

\* lines 232-234: the head of the epoch loop; entering it calls train()
EpochLoop ==
    /\ pc = "epoch_loop"
    /\ IF MoreEpochs
       THEN /\ stdout' = Append(stdout, <<"Epoch", t + 1>>)
            /\ pc' = "train_fetch"
            /\ batch' = -1
            /\ pos' = 0
            /\ trainSteps' = <<>>
            /\ consumed' = <<>>
            /\ UNCHANGED <<Xlen, pred, loss>>
       ELSE /\ pc' = "print_done"
            /\ UNCHANGED <<stdout, loc, trainSteps, consumed>>
    /\ UNCHANGED <<env, net, t, tst, file, trainReturns, testReturns, applied,
                   savedFrom, raisedAt, otherScripts>>

\* lines 193-194: the next (X, y) of enumerate(dataloader), or the end of train()
TrainFetch ==
    /\ pc = "train_fetch"
    /\ IF Exhausted(trainSize, pos)
       THEN /\ trainReturns' = trainReturns + 1
            /\ pc' = "test_enter"
            /\ UNCHANGED <<loc, consumed>>
       ELSE /\ batch' = batch + 1
            /\ Xlen' = BatchLen(trainSize, pos)
            /\ pos' = pos + BatchLen(trainSize, pos)
            /\ consumed' = Append(consumed, <<pos, pos + BatchLen(trainSize, pos)>>)
            /\ pc' = "train_forward"
            /\ UNCHANGED <<pred, loss, trainReturns>>
    /\ UNCHANGED <<env, net, t, tst, file, stdout, trainSteps, testReturns, applied,
                   savedFrom, raisedAt, otherScripts>>

\* line 197: pred = model(X)
TrainForward ==
    /\ pc = "train_forward"
    /\ pred' = Forward(model, t, batch)
    /\ trainSteps' = Append(trainSteps, <<batch, "forward">>)
    /\ pc' = "train_loss"
    /\ UNCHANGED <<env, net, t, batch, pos, Xlen, loss, tst, file, stdout, consumed,
                   trainReturns, testReturns, applied, savedFrom, raisedAt, otherScripts>>

\* mutant: the loss is computed and backward() runs before zero_grad()
TrainLossThenBackward ==
    /\ pc = "train_loss"
    /\ loss' = pred
    /\ grad' = Backward(grad, pred)
    /\ trainSteps' = trainSteps \o <<<<batch, "loss">>, <<batch, "backward">>>>
    /\ pc' = "train_zero_grad"
    /\ UNCHANGED <<env, model, optimizer, training, t, batch, pos, Xlen, pred, tst, file,
                   stdout, consumed, trainReturns, testReturns, applied, savedFrom, raisedAt,
                   otherScripts>>

\* line 198: loss = loss_fn(pred, y)
TrainLoss ==
    /\ pc = "train_loss"
    /\ loss' = pred
    /\ trainSteps' = Append(trainSteps, <<batch, "loss">>)
    /\ pc' = "train_zero_grad"
    /\ UNCHANGED <<env, net, t, batch, pos, Xlen, pred, tst, file, stdout, consumed,
                   trainReturns, testReturns, applied, savedFrom, raisedAt, otherScripts>>

\* line 201: optimizer.zero_grad()
TrainZeroGrad ==
    /\ pc = "train_zero_grad"
    /\ grad' = ZeroGrad(grad)
    /\ trainSteps' = Append(trainSteps, <<batch, "zero_grad">>)
    /\ pc' = "train_backward"
    /\ UNCHANGED <<env, model, optimizer, training, t, loc, tst, file, stdout, consumed,
                   trainReturns, testReturns, applied, savedFrom, raisedAt, otherScripts>>

\* line 202: loss.backward()
TrainBackward ==
    /\ pc = "train_backward"
    /\ grad' = Backward(grad, loss)
    /\ trainSteps' = Append(trainSteps, <<batch, "backward">>)
    /\ pc' = "train_step"
    /\ UNCHANGED <<env, model, optimizer, training, t, loc, tst, file, stdout, consumed,
                   trainReturns, testReturns, applied, savedFrom, raisedAt, otherScripts>>

\* line 203: optimizer.step()
TrainStep ==
    /\ pc = "train_step"
    /\ model' = AdamStep(model, grad)
    /\ optimizer' = [steps |-> optimizer.steps + 1]
    /\ applied' = grad.terms
    /\ trainSteps' = Append(trainSteps, <<batch, "step">>)
    /\ pc' = "train_log"
    /\ UNCHANGED <<env, grad, training, t, loc, tst, file, stdout, consumed,
                   trainReturns, testReturns, savedFrom, raisedAt, otherScripts>>

\* lines 205-207: every 100th batch prints the loss and the samples seen
TrainLog ==
    /\ pc = "train_log"
    /\ stdout' = IF batch % LogEvery = 0
              THEN Append(stdout, <<"loss", batch * Xlen>>)
              ELSE stdout
    /\ pc' = "train_fetch"
    /\ UNCHANGED <<env, net, t, loc, tst, file, hist, otherScripts>>

\* lines 213-216: size = len(dataloader.dataset); model.eval(); test_loss, correct = 0, 0
TestEnter ==
    /\ pc = "test_enter"
    /\ training' = FALSE
    /\ test_loss' = Rat(0, 1)
    /\ correct' = Rat(0, 1)
    /\ batchLosses' = <<>>
    /\ pos' = 0
    /\ pc' = "test_fetch"
    /\ UNCHANGED <<env, model, grad, optimizer, t, batch, Xlen, pred, loss, file, stdout,
                   hist, otherScripts>>

\* lines 217-218: the next (X, y) of the dataloader, or the end of the loop
TestFetch ==
    /\ pc = "test_fetch"
    /\ IF Exhausted(testSize, pos)
       THEN /\ pc' = "test_average"
            /\ UNCHANGED <<pos, Xlen>>
       ELSE /\ Xlen' = BatchLen(testSize, pos)
            /\ pos' = pos + BatchLen(testSize, pos)
            /\ pc' = "test_forward"
    /\ UNCHANGED <<env, net, t, batch, pred, loss, tst, file, stdout, hist, otherScripts>>

\* line 219: pred = model(X), under torch.no_grad()
TestForward ==
    /\ pc = "test_forward"
    /\ pred' = Forward(model, t, Len(batchLosses))
    /\ pc' = "test_accumulate"
    /\ UNCHANGED <<env, net, t, batch, pos, Xlen, loss, tst, file, stdout, hist, otherScripts>>

\* the value of (pred.argmax(1) == y.argmax(1)).sum() for a batch of n samples:
\* none right or all right
CorrectCounts(n) == {0, n}

\* mutant: a test() that also takes an optimizer step for every batch
TestAccumulateThenStep ==
    /\ pc = "test_accumulate"
    /\ \E l \in LossValues :
        /\ test_loss' = RatAddInt(test_loss, l)
        /\ batchLosses' = Append(batchLosses, l)
    /\ \E c \in CorrectCounts(Xlen) : correct' = RatAddInt(correct, c)
    /\ model' = AdamStep(model, grad)
    /\ optimizer' = [steps |-> optimizer.steps + 1]
    /\ pc' = "test_fetch"
    /\ UNCHANGED <<env, grad, training, t, loc, file, stdout, hist, otherScripts>>

\* lines 220-221: test_loss += loss_fn(pred, y).item(); correct += ...
TestAccumulate ==
    /\ pc = "test_accumulate"
    /\ \E l \in LossValues :
        /\ test_loss' = RatAddInt(test_loss, l)
        /\ batchLosses' = Append(batchLosses, l)
    /\ \E c \in CorrectCounts(Xlen) : correct' = RatAddInt(correct, c)
    /\ pc' = "test_fetch"
    /\ UNCHANGED <<env, net, t, loc, file, stdout, hist, otherScripts>>

\* test_loss /= size
AverageLoss(total, size) == RatDivInt(total, size)

\* lines 222-223: test_loss /= size; correct /= size
TestAverage ==
    /\ pc = "test_average"
    /\ test_loss' = AverageLoss(test_loss, testSize)
    /\ correct' = RatDivInt(correct, testSize)
    /\ pc' = "test_print"
    /\ UNCHANGED <<env, net, t, loc, batchLosses, file, stdout, hist, otherScripts>>

\* line 224 and the return to line 232: print accuracy and "Avg loss"; next t
TestPrint ==
    /\ pc = "test_print"
    /\ stdout' = Append(stdout, <<"Test Error", t + 1>>)
    /\ testReturns' = testReturns + 1
    /\ t' = t + 1
    /\ test_loss' = Rat(0, 1)
    /\ correct' = Rat(0, 1)
    /\ batchLosses' = <<>>
    /\ pc' = "epoch_loop"
    /\ UNCHANGED <<env, net, loc, file, trainSteps, consumed, trainReturns, applied,
                   savedFrom, raisedAt, otherScripts>>

\* line 236: print("Done!")
PrintDone ==
    /\ pc = "print_done"
    /\ stdout' = Append(stdout, <<"Done!", 0>>)
    /\ pc' = "save"
    /\ UNCHANGED <<env, net, t, loc, tst, file, hist, otherScripts>>

\* lines 251-252: torch.save(model.state_dict(), "model.pth"); print
Save ==
    /\ pc = "save"
    /\ file' = Pickle(StateDict(model))
    /\ savedFrom' = model
    /\ stdout' = Append(stdout, <<"Saved", 0>>)
    /\ pc' = "new_model"
    /\ UNCHANGED <<env, net, t, loc, tst, trainSteps, consumed, trainReturns,
                   testReturns, applied, raisedAt, otherScripts>>

\* line 267: model = NeuralNetwork(), freshly and randomly initialised
NewModel ==
    /\ pc = "new_model"
    /\ \E seed \in 1..NumSeeds : model' = NeuralNetwork(seed)
    /\ grad' = NoGrad
    /\ training' = TRUE
    /\ pc' = "load"
    /\ UNCHANGED <<env, optimizer, t, loc, tst, file, stdout, hist, otherScripts>>

\* line 268: model.load_state_dict(torch.load("model.pth"))
Load ==
    /\ pc = "load"
    /\ IF Loadable(file) /\ KeysMatch(model, Unpickle(file))
       THEN /\ model' = LoadStateDict(model, Unpickle(file))
            /\ pc' = "predict"
            /\ UNCHANGED raisedAt
       ELSE /\ pc' = Propagate(pc)
            /\ raisedAt' = pc
            /\ UNCHANGED model
    /\ UNCHANGED <<env, grad, optimizer, training, t, loc, tst, file, stdout, trainSteps,
                   consumed, trainReturns, testReturns, applied, savedFrom, otherScripts>>

\* lines 273-278: model.eval(); predict test_data[0] under no_grad; print
Predict ==
    /\ pc = "predict"
    /\ training' = FALSE
    /\ pred' = Forward(model, t, 0)
    /\ stdout' = Append(stdout, <<"Predicted", 0>>)
    /\ pc' = "end"
    /\ UNCHANGED <<env, model, grad, optimizer, t, batch, pos, Xlen, loss, tst, file,
                   hist, otherScripts>>

\* any framework call of the script raises: a missing dataset, a shape
\* mismatch, a full disk. An interrupted torch.save may leave part of the file.
Raise ==
    /\ pc \in Fallible
    /\ pc' = Propagate(pc)
    /\ raisedAt' = pc
    /\ IF pc = "save"
       THEN file' \in {file} \cup Truncated(Pickle(StateDict(model)))
       ELSE UNCHANGED file
    /\ UNCHANGED <<env, net, t, loc, tst, stdout, trainSteps, consumed, trainReturns,
                   testReturns, applied, savedFrom, otherScripts>>

QsNext ==
    \/ DownloadTrain \/ DownloadTest \/ MakeLoaders \/ Peek \/ MakeModel
    \/ MakeOptimizer \/ EpochLoop
    \/ TrainFetch \/ TrainForward \/ TrainLoss \/ TrainZeroGrad \/ TrainBackward
    \/ TrainStep \/ TrainLog
    \/ TestEnter \/ TestFetch \/ TestForward \/ TestAccumulate \/ TestAverage
    \/ TestPrint
    \/ PrintDone \/ Save \/ NewModel \/ Load \/ Predict
    \/ Raise

(***************************************************************************)
(* One pass of `for X, y in dataloader` over the real datasets             *)
(***************************************************************************)
DlStart(n) ==
    /\ dlSize = n
    /\ dlPos = 0
    /\ dlLen = 0
    /\ dlCount = 0

DlInit == \E n \in {TrainSamples, TestSamples} : DlStart(n)

DlIdle == DlStart(0)

\* the iterator yields the next batch
DlYield ==
    /\ ~Exhausted(dlSize, dlPos)
    /\ dlLen' = BatchLen(dlSize, dlPos)
    /\ dlPos' = dlPos + BatchLen(dlSize, dlPos)
    /\ dlCount' = dlCount + 1
    /\ UNCHANGED <<dlSize, qsVars, agVars, dsVars>>

DlNext == DlYield

(***************************************************************************)
(* Exact decimal arithmetic for the tensors of autograd_tutorial.py.       *)
(* The values of the gradient-descent loop need 30 decimal digits, more    *)
(* than a machine integer holds: a natural number is the sequence of its   *)
(* base-10000 digits, least significant first, without leading zeros; a    *)
(* signed number adds a sign; a decimal m / 10^e adds a scale. Float32     *)
(* rounding is not modelled: tensor arithmetic is exact.                   *)
(***************************************************************************)
Base == 10000

Max(a, c) == IF a >= c THEN a ELSE c

\* s without its leading (last) zeros
Strip(s) ==
    SubSeq(s, 1, IF \E j \in 1..Len(s) : s[j] # 0
                 THEN CHOOSE j \in 1..Len(s) : s[j] # 0 /\ \A k \in (j + 1)..Len(s) : s[k] = 0
                 ELSE 0)

\* the digits of n < Base^3
NatOfInt(n) == Strip(<<n % Base, (n \div Base) % Base, n \div (Base * Base)>>)

Digit(s, j) == IF j <= Len(s) THEN s[j] ELSE 0

\* the carry out of digits 1..j of a + c: some digit k <= j overflows and
\* every digit between k and j passes the carry on
CarryOut(a, c, j) ==
    \E k \in 1..j :
        /\ Digit(a, k) + Digit(c, k) >= Base
        /\ \A n \in (k + 1)..j : Digit(a, n) + Digit(c, n) = Base - 1

NatAdd(a, c) ==
    IF a = <<>> THEN c
    ELSE IF c = <<>> THEN a
    ELSE Strip([j \in 1..(Max(Len(a), Len(c)) + 1) |->
                  (Digit(a, j) + Digit(c, j)
                     + (IF CarryOut(a, c, j - 1) THEN 1 ELSE 0)) % Base])

\* the borrow out of digits 1..j of a - c
BorrowOut(a, c, j) ==
    \E k \in 1..j :
        /\ Digit(a, k) < Digit(c, k)
        /\ \A n \in (k + 1)..j : Digit(a, n) = Digit(c, n)

\* a - c for a >= c
NatSub(a, c) ==
    IF c = <<>> THEN a
    ELSE Strip([j \in 1..Len(a) |->
                  (Digit(a, j) - Digit(c, j)
                     - (IF BorrowOut(a, c, j - 1) THEN 1 ELSE 0) + Base) % Base])

\* -1, 0, 1 as a < c, a = c, a > c
NatCmp(a, c) ==
    IF Len(a) < Len(c) THEN -1
    ELSE IF Len(a) > Len(c) THEN 1
    ELSE IF a = c THEN 0
    ELSE LET j == CHOOSE k \in 1..Len(a) :
                      a[k] # c[k] /\ \A n \in (k + 1)..Len(a) : a[n] = c[n]
         IN  IF a[j] < c[j] THEN -1 ELSE 1

\* a * Base^n
ShiftUpBy(a, n) == IF a = <<>> THEN <<>> ELSE [j \in 1..n |-> 0] \o a

\* a * k for a digit k: the low halves of the digit products plus the high
\* halves one place up
NatMulDigit(a, k) ==
    IF a = <<>> \/ k = 0 THEN <<>>
    ELSE NatAdd(Strip([j \in 1..Len(a) |-> (a[j] * k) % Base]),
                ShiftUpBy(Strip([j \in 1..Len(a) |-> (a[j] * k) \div Base]), 1))

\* the sum of the digit products a[j] * c[k + 1 - j] of column k, from j on
RECURSIVE ColumnFrom(_, _, _, _)
ColumnFrom(a, c, k, j) ==
    IF j > Len(a) THEN 0
    ELSE (IF k + 1 - j \in 1..Len(c) THEN a[j] * c[k + 1 - j] ELSE 0)
         + ColumnFrom(a, c, k, j + 1)

\* the column sums of a * c, each below Base^3
Columns(a, c) == [k \in 1..(Len(a) + Len(c) - 1) |-> ColumnFrom(a, c, k, 1)]

\* a * c: the three base-10000 digits of every column sum, each in its place
NatMul(a, c) ==
    IF a = <<>> \/ c = <<>> THEN <<>>
    ELSE NatAdd(NatAdd(Strip([k \in DOMAIN Columns(a, c) |-> Columns(a, c)[k] % Base]),
                       ShiftUpBy(Strip([k \in DOMAIN Columns(a, c) |->
                                          (Columns(a, c)[k] \div Base) % Base]), 1)),
                ShiftUpBy(Strip([k \in DOMAIN Columns(a, c) |->
                                   Columns(a, c)[k] \div (Base * Base)]), 2))

\* signed numbers
Signed(neg, mag) == [neg |-> neg /\ mag # <<>>, mag |-> mag]
SInt(n) == IF n < 0 THEN Signed(TRUE, NatOfInt(-n)) ELSE Signed(FALSE, NatOfInt(n))
SNeg(a) == Signed(~a.neg, a.mag)
SAdd(a, c) ==
    IF a.neg = c.neg THEN Signed(a.neg, NatAdd(a.mag, c.mag))
    ELSE IF NatCmp(a.mag, c.mag) >= 0 THEN Signed(a.neg, NatSub(a.mag, c.mag))
    ELSE Signed(c.neg, NatSub(c.mag, a.mag))
SMul(a, c) == Signed(a.neg # c.neg, NatMul(a.mag, c.mag))
SLess(a, c) ==
    IF a.neg /\ ~c.neg THEN TRUE
    ELSE IF ~a.neg /\ c.neg THEN FALSE
    ELSE IF a.neg THEN NatCmp(a.mag, c.mag) > 0
    ELSE NatCmp(a.mag, c.mag) < 0

\* decimals m / 10^e
Dec(m, e) == [m |-> m, e |-> e]
DecOfInt(n) == Dec(SInt(n), 0)

\* 10^k for k < 4
SmallPowerOfTen(k) == CASE k = 0 -> 1 [] k = 1 -> 10 [] k = 2 -> 100 [] k = 3 -> 1000

\* m * 10^k: whole base-10000 digits are shifted, the rest is one digit product
TimesTenTo(m, k) ==
    IF k = 0 THEN m
    ELSE Signed(m.neg, NatMulDigit(ShiftUpBy(m.mag, k \div 4), SmallPowerOfTen(k % 4)))

\* the numerator of d at scale e >= d.e
AtScale(d, e) == TimesTenTo(d.m, e - d.e)

DecAdd(a, c) ==
    IF a.e = c.e THEN Dec(SAdd(a.m, c.m), a.e)
    ELSE Dec(SAdd(AtScale(a, Max(a.e, c.e)), AtScale(c, Max(a.e, c.e))), Max(a.e, c.e))
DecNeg(a) == Dec(SNeg(a.m), a.e)
DecSub(a, c) == DecAdd(a, DecNeg(c))
DecMul(a, c) == Dec(SMul(a.m, c.m), a.e + c.e)
DecLess(a, c) ==
    IF a.e = c.e THEN SLess(a.m, c.m)
    ELSE SLess(AtScale(a, Max(a.e, c.e)), AtScale(c, Max(a.e, c.e)))
DecEq(a, c) ==
    IF a.e = c.e THEN a.m = c.m
    ELSE AtScale(a, Max(a.e, c.e)) = AtScale(c, Max(a.e, c.e))

(***************************************************************************)
(* autograd_tutorial.py: tensors and their backward functions              *)
(***************************************************************************)
N == 5              \* torch.eye(5)
Iterations == 15    \* range(15)

Vec(n, v) == [k \in 1..n |-> DecOfInt(v)]

\* torch.eye(n)
Eye(n) == [r \in 1..n |-> [c \in 1..n |-> IF r = c THEN 1 ELSE 0]]

\* torch.ones_like(m)
OnesLike(m) == [r \in DOMAIN m |-> [c \in DOMAIN m[r] |-> 1]]

\* (m + 1).pow(2), element by element
PlusOneSquared(m) == [r \in DOMAIN m |-> [c \in DOMAIN m[r] |-> (m[r][c] + 1) * (m[r][c] + 1)]]

\* what out.backward(v) sends to the leaf m of out = (m + 1).pow(2): pow's
\* backward multiplies v by 2 * (m + 1), the addition passes it on
OutBackward(m, v) == [r \in DOMAIN m |-> [c \in DOMAIN m[r] |-> v[r][c] * 2 * (m[r][c] + 1)]]

NoMatGrad == [isNone |-> TRUE, val |-> <<>>]

\* mutant: backward() that overwrites .grad with the new gradient
MatStore(g, d) == [isNone |-> FALSE, val |-> d]

\* the leaf's AccumulateGrad: the first gradient is stored, later ones are added
MatAccumulate(g, d) ==
    IF g.isNone THEN [isNone |-> FALSE, val |-> d]
    ELSE [isNone |-> FALSE,
          val |-> [r \in DOMAIN d |-> [c \in DOMAIN d[r] |-> g.val[r][c] + d[r][c]]]]

\* inp.grad.zero_()
MatZero(g) ==
    [isNone |-> FALSE, val |-> [r \in DOMAIN g.val |-> [c \in DOMAIN g.val[r] |-> 0]]]

\* the leaves of z = matmul(x,w)+b and their requires_grad
RequiresGrad == [x |-> FALSE, w |-> TRUE, b |-> TRUE]

\* mutant: a computed tensor that tracks gradients whatever the grad mode is
ComputedTracksAlways(enabled) ==
    [requires_grad |-> RequiresGrad.x \/ RequiresGrad.w \/ RequiresGrad.b]

\* a tensor computed from x, w and b tracks gradients when grad mode is on and
\* one of its inputs requires them
Computed(enabled) ==
    [requires_grad |-> enabled /\ (RequiresGrad.x \/ RequiresGrad.w \/ RequiresGrad.b)]

\* t.detach()
Detach(tensor) == [requires_grad |-> FALSE]

NoTensor == [requires_grad |-> FALSE]

NoSymGrad == [isNone |-> TRUE, terms |-> <<>>]

\* what loss.backward() adds to the .grad of a leaf of loss
SymAccumulate(g, leaf, ws, bs) ==
    [isNone |-> FALSE, terms |-> Append(g.terms, [of |-> "loss", wrt |-> leaf, w |-> ws, b |-> bs])]

\* backward() needs the buffers of its graph
CanBackward(g) == graphs[g] = "live"

\* mutant: backward() that frees the buffers whatever retain_graph says
AfterBackwardReleases(g, retain) == [graphs EXCEPT ![g] = "freed"]

\* backward(retain_graph=retain) frees the buffers of the graph unless told to keep them
AfterBackward(g, retain) == IF retain THEN graphs ELSE [graphs EXCEPT ![g] = "freed"]

\* torch.tensor([3,-2])
Target == <<3, -2>>

\* lr = 0.1
lr == Dec(SInt(1), 1)

RECURSIVE DecSum(_)
DecSum(v) == IF v = <<>> THEN DecOfInt(0) ELSE DecAdd(v[1], DecSum(Tail(v)))

\* f = lambda x : (x-torch.tensor([3,-2])).pow(2).sum()
F(v) ==
    DecSum([k \in 1..Len(v) |->
              DecMul(DecSub(v[k], DecOfInt(Target[k])), DecSub(v[k], DecOfInt(Target[k])))])

\* what y.backward() sends to the leaf v of y = f(v): sum's backward gives 1
\* to every element, pow's multiplies by 2 * (v - target), the subtraction
\* passes it on
FBackward(v) ==
    [k \in 1..Len(v) |-> DecMul(DecOfInt(2), DecSub(v[k], DecOfInt(Target[k])))]

NoVecGrad == [isNone |-> TRUE, val |-> <<>>]

\* the leaf's AccumulateGrad for x
VecAccumulate(g, d) ==
    IF g.isNone THEN [isNone |-> FALSE, val |-> d]
    ELSE [isNone |-> FALSE, val |-> [k \in 1..Len(d) |-> DecAdd(g.val[k], d[k])]]

\* mutant: x.grad.zero_() that leaves the gradient in place
VecZeroKeeps(g) == g

\* x.grad.zero_()
VecZero(g) == [isNone |-> FALSE, val |-> [k \in 1..Len(g.val) |-> DecOfInt(0)]]

\* x.data.add_(-lr*gr)
AddScaled(v, gr) == [k \in 1..Len(v) |-> DecAdd(v[k], DecMul(DecNeg(lr), gr[k]))]

(***************************************************************************)
(* autograd_tutorial.py: the script, statement by statement                *)
(***************************************************************************)
AgStart(p) ==
    /\ agPc = p
    /\ x = <<>>
    /\ y = <<>>
    /\ w = 0
    /\ b = 0
    /\ z = NoTensor
    /\ z_det = NoTensor
    /\ wGrad = NoSymGrad
    /\ bGrad = NoSymGrad
    /\ gradEnabled = TRUE
    /\ inp = <<>>
    /\ out = <<>>
    /\ inpGrad = NoMatGrad
    /\ xGrad = NoVecGrad
    /\ graphs = [g \in {"loss", "out", "y"} |-> "none"]
    /\ i = 0
    /\ agStdout = <<>>
    /\ sinceZero = 0
    /\ xPrev = <<>>
    /\ xStart = <<>>
    /\ backwardCalls = [g \in {"loss", "out", "y"} |-> <<>>]
    /\ agRaisedAt = "none"

AgInit == AgStart("make_loss")

\* the script is not run
AgIdle == AgStart("idle")

\* lines 20-25: x, y, w, b, z and loss; randn draws w and b
MakeLoss ==
    /\ agPc = "make_loss"
    /\ x' = Vec(5, 1)
    /\ y' = Vec(3, 0)
    /\ \E ws \in 1..NumSeeds : w' = ws
    /\ \E bs \in 1..NumSeeds : b' = bs
    /\ z' = Computed(gradEnabled)
    /\ graphs' = [graphs EXCEPT !["loss"] = "live"]
    /\ backwardCalls' = [backwardCalls EXCEPT !["loss"] = <<>>]
    /\ agPc' = "print_grad_fn"
    /\ UNCHANGED <<z_det, wGrad, bGrad, gradEnabled, inp, out, inpGrad, xGrad, i, agStdout,
                   sinceZero, xPrev, xStart, agRaisedAt, qsVars, dlVars, dsVars>>

\* line 54: print(z.grad_fn, loss.grad_fn)
PrintGradFn ==
    /\ agPc = "print_grad_fn"
    /\ agStdout' = Append(agStdout, <<"grad_fn", z.requires_grad>>)
    /\ agPc' = "loss_backward"
    /\ UNCHANGED <<x, y, w, b, z, z_det, wGrad, bGrad, gradEnabled, inp, out, inpGrad,
                   xGrad, graphs, i, sinceZero, xPrev, xStart, backwardCalls, agRaisedAt,
                   qsVars, dlVars, dsVars>>

\* line 69: loss.backward()
LossBackward ==
    /\ agPc = "loss_backward"
    /\ IF CanBackward("loss")
       THEN /\ wGrad' = SymAccumulate(wGrad, "w", w, b)
            /\ bGrad' = SymAccumulate(bGrad, "b", w, b)
            /\ graphs' = AfterBackward("loss", FALSE)
            /\ backwardCalls' = [backwardCalls EXCEPT !["loss"] = Append(@, FALSE)]
            /\ agPc' = "print_grads"
            /\ UNCHANGED agRaisedAt
       ELSE /\ agPc' = "raised"
            /\ agRaisedAt' = agPc
            /\ UNCHANGED <<wGrad, bGrad, graphs, backwardCalls>>
    /\ UNCHANGED <<x, y, w, b, z, z_det, gradEnabled, inp, out, inpGrad, xGrad, i,
                   agStdout, sinceZero, xPrev, xStart, qsVars, dlVars, dsVars>>

\* lines 70-71: print(w.grad); print(b.grad)
PrintGrads ==
    /\ agPc = "print_grads"
    /\ agStdout' = agStdout \o <<<<"w.grad", wGrad>>, <<"b.grad", bGrad>>>>
    /\ agPc' = "make_out"
    /\ UNCHANGED <<x, y, w, b, z, z_det, wGrad, bGrad, gradEnabled, inp, out, inpGrad,
                   xGrad, graphs, i, sinceZero, xPrev, xStart, backwardCalls, agRaisedAt,
                   qsVars, dlVars, dsVars>>

\* lines 118-119: inp = torch.eye(5, requires_grad=True); out = (inp+1).pow(2)
MakeOut ==
    /\ agPc = "make_out"
    /\ inp' = Eye(N)
    /\ out' = PlusOneSquared(Eye(N))
    /\ inpGrad' = NoMatGrad
    /\ sinceZero' = 0
    /\ graphs' = [graphs EXCEPT !["out"] = "live"]
    /\ backwardCalls' = [backwardCalls EXCEPT !["out"] = <<>>]
    /\ agPc' = "out_backward_1"
    /\ UNCHANGED <<x, y, w, b, z, z_det, wGrad, bGrad, gradEnabled, xGrad, i, agStdout,
                   xPrev, xStart, agRaisedAt, qsVars, dlVars, dsVars>>

\* out.backward(torch.ones_like(inp), retain_graph=True), from position p on to q
OutBackwardCall(p, q) ==
    /\ agPc = p
    /\ IF CanBackward("out")
       THEN /\ inpGrad' = MatAccumulate(inpGrad, OutBackward(inp, OnesLike(inp)))
            /\ sinceZero' = sinceZero + 1
            /\ graphs' = AfterBackward("out", TRUE)
            /\ backwardCalls' = [backwardCalls EXCEPT !["out"] = Append(@, TRUE)]
            /\ agPc' = q
            /\ UNCHANGED agRaisedAt
       ELSE /\ agPc' = "raised"
            /\ agRaisedAt' = agPc
            /\ UNCHANGED <<inpGrad, sinceZero, graphs, backwardCalls>>
    /\ UNCHANGED <<x, y, w, b, z, z_det, wGrad, bGrad, gradEnabled, inp, out, xGrad, i,
                   agStdout, xPrev, xStart, qsVars, dlVars, dsVars>>

\* print(label, inp.grad), from position p on to q
PrintInpGrad(p, label, q) ==
    /\ agPc = p
    /\ agStdout' = Append(agStdout, <<label, inpGrad>>)
    /\ agPc' = q
    /\ UNCHANGED <<x, y, w, b, z, z_det, wGrad, bGrad, gradEnabled, inp, out, inpGrad,
                   xGrad, graphs, i, sinceZero, xPrev, xStart, backwardCalls, agRaisedAt,
                   qsVars, dlVars, dsVars>>

\* line 120
OutBackward1 == OutBackwardCall("out_backward_1", "print_first")

\* line 121
PrintFirst == PrintInpGrad("print_first", "First call", "out_backward_2")

\* line 122
OutBackward2 == OutBackwardCall("out_backward_2", "print_second")

\* line 123
PrintSecond == PrintInpGrad("print_second", "Second call", "zero_inp_grad")

\* line 124: inp.grad.zero_()
ZeroInpGrad ==
    /\ agPc = "zero_inp_grad"
    /\ inpGrad' = MatZero(inpGrad)
    /\ sinceZero' = 0
    /\ agPc' = "out_backward_3"
    /\ UNCHANGED <<x, y, w, b, z, z_det, wGrad, bGrad, gradEnabled, inp, out, xGrad,
                   graphs, i, agStdout, xPrev, xStart, backwardCalls, agRaisedAt, qsVars,
                   dlVars, dsVars>>

\* line 125
OutBackward3 == OutBackwardCall("out_backward_3", "print_third")

\* line 126
PrintThird == PrintInpGrad("print_third", "Call after zeroing gradients", "track_z")

\* lines 160-161: z = torch.matmul(x,w)+b; print(z.requires_grad)
TrackZ ==
    /\ agPc = "track_z"
    /\ z' = Computed(gradEnabled)
    /\ agStdout' = Append(agStdout, <<"z.requires_grad", Computed(gradEnabled).requires_grad>>)
    /\ agPc' = "enter_no_grad"
    /\ UNCHANGED <<x, y, w, b, z_det, wGrad, bGrad, gradEnabled, inp, out, inpGrad, xGrad,
                   graphs, i, sinceZero, xPrev, xStart, backwardCalls, agRaisedAt, qsVars,
                   dlVars, dsVars>>

\* line 163: with torch.no_grad():
EnterNoGrad ==
    /\ agPc = "enter_no_grad"
    /\ gradEnabled' = FALSE
    /\ agPc' = "no_grad_z"
    /\ UNCHANGED <<x, y, w, b, z, z_det, wGrad, bGrad, inp, out, inpGrad, xGrad, graphs, i,
                   agStdout, sinceZero, xPrev, xStart, backwardCalls, agRaisedAt, qsVars,
                   dlVars, dsVars>>

\* line 164: z = torch.matmul(x,w)+b inside the block
NoGradZ ==
    /\ agPc = "no_grad_z"
    /\ z' = Computed(gradEnabled)
    /\ agPc' = "exit_no_grad"
    /\ UNCHANGED <<x, y, w, b, z_det, wGrad, bGrad, gradEnabled, inp, out, inpGrad, xGrad,
                   graphs, i, agStdout, sinceZero, xPrev, xStart, backwardCalls,
                   agRaisedAt, qsVars, dlVars, dsVars>>

\* the end of the with block, and line 165: print(z.requires_grad)
ExitNoGrad ==
    /\ agPc = "exit_no_grad"
    /\ gradEnabled' = TRUE
    /\ agStdout' = Append(agStdout, <<"z.requires_grad", z.requires_grad>>)
    /\ agPc' = "retrack_z"
    /\ UNCHANGED <<x, y, w, b, z, z_det, wGrad, bGrad, inp, out, inpGrad, xGrad, graphs, i,
                   sinceZero, xPrev, xStart, backwardCalls, agRaisedAt, qsVars, dlVars,
                   dsVars>>

\* line 173: z = torch.matmul(x,w)+b
RetrackZ ==
    /\ agPc = "retrack_z"
    /\ z' = Computed(gradEnabled)
    /\ agPc' = "detach_z"
    /\ UNCHANGED <<x, y, w, b, z_det, wGrad, bGrad, gradEnabled, inp, out, inpGrad, xGrad,
                   graphs, i, agStdout, sinceZero, xPrev, xStart, backwardCalls,
                   agRaisedAt, qsVars, dlVars, dsVars>>

\* lines 174-175: z_det = z.detach(); print(z_det.requires_grad)
DetachZ ==
    /\ agPc = "detach_z"
    /\ z_det' = Detach(z)
    /\ agStdout' = Append(agStdout, <<"z_det.requires_grad", Detach(z).requires_grad>>)
    /\ agPc' = "make_x"
    /\ UNCHANGED <<x, y, w, b, z, wGrad, bGrad, gradEnabled, inp, out, inpGrad, xGrad,
                   graphs, i, sinceZero, xPrev, xStart, backwardCalls, agRaisedAt, qsVars,
                   dlVars, dsVars>>

\* lines 208-210: x = torch.zeros(2, requires_grad=True); f; lr
MakeX ==
    /\ agPc = "make_x"
    /\ x' = Vec(2, 0)
    /\ xGrad' = NoVecGrad
    /\ xStart' = Vec(2, 0)
    /\ i' = 0
    /\ agPc' = "descent_loop"
    /\ UNCHANGED <<y, w, b, z, z_det, wGrad, bGrad, gradEnabled, inp, out, inpGrad, graphs,
                   agStdout, sinceZero, xPrev, backwardCalls, agRaisedAt, qsVars, dlVars,
                   dsVars>>

\* range(15) has another value for i
MoreIterations == i < Iterations

\* line 219: for i in range(15)
DescentLoop ==
    /\ agPc = "descent_loop"
    /\ agPc' = IF MoreIterations THEN "forward_y" ELSE "end"
    /\ xPrev' = IF MoreIterations THEN x ELSE xPrev
    /\ UNCHANGED <<x, y, w, b, z, z_det, wGrad, bGrad, gradEnabled, inp, out, inpGrad,
                   xGrad, graphs, i, agStdout, sinceZero, xStart, backwardCalls,
                   agRaisedAt, qsVars, dlVars, dsVars>>

\* line 220: y = f(x)
ForwardY ==
    /\ agPc = "forward_y"
    /\ y' = <<F(x)>>
    /\ graphs' = [graphs EXCEPT !["y"] = "live"]
    /\ backwardCalls' = [backwardCalls EXCEPT !["y"] = <<>>]
    /\ agPc' = "backward_y"
    /\ UNCHANGED <<x, w, b, z, z_det, wGrad, bGrad, gradEnabled, inp, out, inpGrad, xGrad,
                   i, agStdout, sinceZero, xPrev, xStart, agRaisedAt, qsVars, dlVars,
                   dsVars>>

\* line 221: y.backward()
BackwardY ==
    /\ agPc = "backward_y"
    /\ IF CanBackward("y")
       THEN /\ xGrad' = VecAccumulate(xGrad, FBackward(x))
            /\ graphs' = AfterBackward("y", FALSE)
            /\ backwardCalls' = [backwardCalls EXCEPT !["y"] = Append(@, FALSE)]
            /\ agPc' = "update_x"
            /\ UNCHANGED agRaisedAt
       ELSE /\ agPc' = "raised"
            /\ agRaisedAt' = agPc
            /\ UNCHANGED <<xGrad, graphs, backwardCalls>>
    /\ UNCHANGED <<x, y, w, b, z, z_det, wGrad, bGrad, gradEnabled, inp, out, inpGrad, i,
                   agStdout, sinceZero, xPrev, xStart, qsVars, dlVars, dsVars>>

\* lines 222-223: gr = x.grad; x.data.add_(-lr*gr)
UpdateX ==
    /\ agPc = "update_x"
    /\ x' = AddScaled(x, xGrad.val)
    /\ agPc' = "zero_x_grad"
    /\ UNCHANGED <<y, w, b, z, z_det, wGrad, bGrad, gradEnabled, inp, out, inpGrad, xGrad,
                   graphs, i, agStdout, sinceZero, xPrev, xStart, backwardCalls,
                   agRaisedAt, qsVars, dlVars, dsVars>>

\* line 224: x.grad.zero_()
ZeroXGrad ==
    /\ agPc = "zero_x_grad"
    /\ xGrad' = VecZero(xGrad)
    /\ agPc' = "print_x"
    /\ UNCHANGED <<x, y, w, b, z, z_det, wGrad, bGrad, gradEnabled, inp, out, inpGrad,
                   graphs, i, agStdout, sinceZero, xPrev, xStart, backwardCalls,
                   agRaisedAt, qsVars, dlVars, dsVars>>

\* line 225: print the step and x; on to the next i
PrintX ==
    /\ agPc = "print_x"
    /\ agStdout' = Append(agStdout, <<"Step", i, x>>)
    /\ i' = i + 1
    /\ agPc' = "descent_loop"
    /\ UNCHANGED <<x, y, w, b, z, z_det, wGrad, bGrad, gradEnabled, inp, out, inpGrad,
                   xGrad, graphs, sinceZero, xPrev, xStart, backwardCalls, agRaisedAt,
                   qsVars, dlVars, dsVars>>

AgNext ==
    \/ MakeLoss \/ PrintGradFn \/ LossBackward \/ PrintGrads
    \/ MakeOut \/ OutBackward1 \/ PrintFirst \/ OutBackward2 \/ PrintSecond
    \/ ZeroInpGrad \/ OutBackward3 \/ PrintThird
    \/ TrackZ \/ EnterNoGrad \/ NoGradZ \/ ExitNoGrad \/ RetrackZ \/ DetachZ
    \/ MakeX \/ DescentLoop \/ ForwardY \/ BackwardY \/ UpdateX \/ ZeroXGrad \/ PrintX

(***************************************************************************)
(* dataquickstart_tutorial.py: CustomImageDataset                          *)
(***************************************************************************)
MaxRows == 2        \* the annotations file holds a first line and at most this many more

FileNames == {"tshirt1.jpg", "ankleboot999.jpg"}
Labels == {0, 9}
ImgDirs == {"img"}
Transforms == {"None", "ToTensor"}

CsvLines == FileNames \X Labels

CsvFiles == UNION {[1..n -> CsvLines] : n \in 1..(MaxRows + 1)}

\* pd.read_csv(annotations_file): the first line is taken as the header, the
\* others are the rows of the frame
ReadCsv(lines) == Tail(lines)

\* os.path.join(dir, name)
PathJoin(dir, name) == <<dir, name>>

\* the attributes __init__ sets on the object
Construct(a) ==
    [img_labels |-> ReadCsv(a.annotations_file),
     img_dir |-> a.img_dir,
     transform |-> a.transform]

NoObject == [a \in {} |-> 0]

\* len(dataset)
DatasetLen(obj) == Len(obj.img_labels)

\* torch.is_tensor(idx) and idx.tolist(): a tensor index becomes a plain one
ToIndex(ix) == ix.value

Raised(exc) == [kind |-> "raise", exc |-> exc, image |-> <<>>, label |-> <<>>,
                transformed |-> FALSE]

Returned(image, label, transformed) ==
    [kind |-> "return", exc |-> "none", image |-> image, label |-> label,
     transformed |-> transformed]

NoResult == [kind |-> "none", exc |-> "none", image |-> <<>>, label |-> <<>>,
             transformed |-> FALSE]

\* the attribute __getitem__ reads the directory from
DirAttribute == "root_dir"

\* __getitem__(idx) on the object obj with the files d on disk
GetItem(obj, ix, d) ==
    IF DirAttribute \notin DOMAIN obj
    THEN Raised("AttributeError")
    ELSE IF ToIndex(ix) \notin 0..(Len(obj.img_labels) - 1)
    THEN Raised("IndexError")
    ELSE IF PathJoin(obj[DirAttribute], obj.img_labels[ToIndex(ix) + 1][1]) \notin DOMAIN d
    THEN Raised("RuntimeError")
    ELSE Returned(d[PathJoin(obj[DirAttribute], obj.img_labels[ToIndex(ix) + 1][1])],
                  Tail(obj.img_labels[ToIndex(ix) + 1]),
                  obj.transform # "None")

DsStart(p, lines, a) ==
    /\ dsPc = p
    /\ csv = lines
    /\ args = a
    /\ disk = [path \in {PathJoin(a.img_dir, lines[n][1]) : n \in 1..Len(lines)} |->
                  [pixels_of |-> path[2]]]
    /\ self = NoObject
    /\ idx = [tensor |-> FALSE, value |-> 0]
    /\ result = NoResult

DsInit ==
    \E lines \in CsvFiles, dir \in ImgDirs, tf \in Transforms :
        DsStart("construct", lines,
                [annotations_file |-> lines, img_dir |-> dir, transform |-> tf])

\* the class is not used
DsIdle ==
    DsStart("idle", <<>>, [annotations_file |-> <<>>, img_dir |-> "img", transform |-> "None"])

\* lines 122-125: CustomImageDataset(annotations_file, img_dir, transform)
DsConstruct ==
    /\ dsPc = "construct"
    /\ self' = Construct(args)
    /\ dsPc' = "ready"
    /\ UNCHANGED <<csv, disk, args, idx, result, qsVars, dlVars, agVars>>

\* lines 130-142: dataset[idx] for an index in range, plain or as a tensor
DsGetItem ==
    /\ dsPc = "ready"
    /\ \E n \in 0..(DatasetLen(self) - 1), asTensor \in BOOLEAN :
        /\ idx' = [tensor |-> asTensor, value |-> n]
        /\ result' = GetItem(self, [tensor |-> asTensor, value |-> n], disk)
        /\ dsPc' = IF GetItem(self, [tensor |-> asTensor, value |-> n], disk).kind = "raise"
                   THEN "raised" ELSE "returned"
    /\ UNCHANGED <<csv, disk, args, self, qsVars, dlVars, agVars>>

DsNext == DsConstruct \/ DsGetItem

(***************************************************************************)
(* Specifications                                                          *)
(***************************************************************************)
\* quickstart_tutorial.py
Init == QsInit /\ DlIdle /\ AgIdle /\ DsIdle

Next == QsNext

Spec == Init /\ [][Next]_vars

\* one pass over a DataLoader of the real datasets
LoaderInit == DlInit /\ QsIdle /\ AgIdle /\ DsIdle

SpecLoader == LoaderInit /\ [][DlNext]_vars

\* autograd_tutorial.py
AutogradInit == AgInit /\ QsIdle /\ DlIdle /\ DsIdle

SpecAutograd == AutogradInit /\ [][AgNext]_vars

\* CustomImageDataset of dataquickstart_tutorial.py
DataInit == DsInit /\ QsIdle /\ DlIdle /\ AgIdle

SpecData == DataInit /\ [][DsNext]_vars

(***************************************************************************)
(* Properties of quickstart_tutorial.py                                    *)
(***************************************************************************)
\* the statement the script is at, or was at when an exception left it
Where == IF pc = "raised" THEN raisedAt ELSE pc

IsPrefix(a, c) == Len(a) <= Len(c) /\ SubSeq(c, 1, Len(a)) = a

\* the steps train() owes to batches 0..n-1, batch after batch
ExpectedSteps(n) ==
    [j \in 1..(n * Len(TrainStepOrder)) |->
        <<(j - 1) \div Len(TrainStepOrder),
          TrainStepOrder[((j - 1) % Len(TrainStepOrder)) + 1]>>]

InTrain == Where \in {"train_fetch", "train_forward", "train_loss", "train_zero_grad",
                      "train_backward", "train_step", "train_log"}

InTest == Where \in {"test_enter", "test_fetch", "test_forward", "test_accumulate",
                     "test_average", "test_print"}

\* r <= k, k <= r and r = k for a rational r with den > 0 and an integer k
RatLeInt(r, k) == r.num <= k * r.den
IntLeRat(k, r) == k * r.den <= r.num
RatEqInt(r, k) == r.num = k * r.den

Printed(word) == \E j \in 1..Len(stdout) : stdout[j][1] = word

TimesPrinted(word) == Cardinality({j \in 1..Len(stdout) : stdout[j][1] = word})

\* C1: in train(), for every batch the dataloader yields, forward pass, loss,
\* zero_grad, backward and optimizer.step happen exactly once and in that
\* order, and no step of the next batch happens before optimizer.step of the
\* batch before has finished: the steps taken are always a prefix of the five
\* steps of batch 0, then the five of batch 1, ...; whenever train() asks for
\* the next batch, and when it returns, every batch yielded so far has had
\* all five.
C1_TrainStepOrder ==
    /\ IsPrefix(trainSteps, ExpectedSteps(Len(consumed)))
    /\ (Where \in {"train_fetch", "train_log"} \/ InTest)
          => trainSteps = ExpectedSteps(Len(consumed))

C1_Witness ==
    /\ pc = "train_fetch"
    /\ Len(consumed) = 2
    /\ trainSteps = ExpectedSteps(2)
    /\ t = 1

\* C2: the main loop runs exactly 5 epochs; in each, train() consumes every
\* batch of the training dataloader exactly once before test() starts, test()
\* finishes before the next epoch's train() starts, and "Done!" is printed
\* only after the fifth test() has returned.
C2_EpochOrder ==
    /\ t \in 0..epochs
    /\ InTrain => /\ t < epochs
                  /\ trainReturns = t
                  /\ testReturns = t
                  /\ IsPrefix(consumed, AllBatches(trainSize))
    /\ InTest => /\ t < epochs
                 /\ trainReturns = t + 1
                 /\ testReturns = t
                 /\ consumed = AllBatches(trainSize)
    /\ Printed("Done!") => /\ trainReturns = epochs
                           /\ testReturns = epochs
                           /\ epochs = 5
                           /\ TimesPrinted("Epoch") = 5
                           /\ TimesPrinted("Done!") = 1

C2_Witness ==
    /\ pc = "end"
    /\ Printed("Done!")
    /\ testReturns = 5
    /\ Len(consumed) = 2

\* C3: the gradient optimizer.step() applies for a batch is the gradient of
\* that batch's loss alone; nothing of an earlier batch or epoch is left in
\* .grad when step() runs.
C3_StepAppliesOwnGradient ==
    Where = "train_log" =>
        /\ applied = <<loss>>
        /\ loss.epoch = t
        /\ loss.batch = batch

C3_Witness ==
    /\ pc = "train_log"
    /\ t = 1
    /\ batch = 1
    /\ applied = <<loss>>

\* C5: after torch.save(model.state_dict()) and load_state_dict(torch.load())
\* into a fresh NeuralNetwork, every parameter of the new model equals the
\* parameter the trained model had when it was saved, whatever the fresh
\* model was initialised with.
C5_SaveLoadRoundTrip ==
    Where \in {"predict", "end"} =>
        \A k \in ParamKeys : model[k] = savedFrom[k]

C5_Witness ==
    /\ pc = "predict"
    /\ \A k \in ParamKeys : model[k].steps > 0 /\ model[k] = savedFrom[k]

\* C6: a failure at any step is never caught or retried: the script stops
\* there and no later step runs; model.pth is written only if all 5 epochs
\* of train() and test() completed, and the model is loaded only after the
\* save succeeded.
C6_FailStop ==
    /\ [][pc # "raised"]_vars
    /\ [](file # NoFile =>
            /\ trainReturns = epochs
            /\ testReturns = epochs
            /\ Where \notin {"download_train", "download_test", "make_loaders", "peek",
                             "make_model", "make_optimizer", "epoch_loop", "print_done"}
            /\ ~InTrain /\ ~InTest)
    /\ [](Where \in {"predict", "end"} =>
            /\ Printed("Saved")
            /\ file = Pickle(StateDict(savedFrom)))
    /\ [](pc = "raised" => raisedAt \in Fallible)

C6_Witness ==
    /\ pc = "raised"
    /\ raisedAt = "test_forward"
    /\ t = 4
    /\ file = NoFile

\* C9: the value test() prints as "Avg loss" is an average of the per-batch
\* losses it accumulated: it lies between the smallest and the largest of
\* them, and when every batch has the same loss L it is L.
C9_AvgLossIsAverage ==
    (pc = "test_print" /\ batchLosses # <<>>) =>
        /\ \E j \in 1..Len(batchLosses) : IntLeRat(batchLosses[j], test_loss)
        /\ \E j \in 1..Len(batchLosses) : RatLeInt(test_loss, batchLosses[j])
        /\ \A L \in LossValues :
              (\A j \in 1..Len(batchLosses) : batchLosses[j] = L)
                  => RatEqInt(test_loss, L)

\* the statements of test()
TestStatements == {"test_enter", "test_fetch", "test_forward", "test_accumulate",
                   "test_average", "test_print"}

\* C13: test() changes neither the parameters nor the optimizer state: no
\* step taken from a statement of test() changes them, so they are at its
\* return what they were at the call; all through test() they are what the
\* train() call before it left, one optimizer step per training batch; and
\* during the epochs only train()'s optimizer.step() changes them.
C13_TestLeavesParameters ==
    /\ [][(pc \in TestStatements) => (model' = model /\ optimizer' = optimizer)]_vars
    /\ [][((InTrain \/ InTest \/ pc = "epoch_loop")
              /\ (model' # model \/ optimizer' # optimizer)) => (pc = "train_step")]_vars
    /\ [](InTest =>
            /\ optimizer.steps = (t + 1) * Len(AllBatches(trainSize))
            /\ \A k \in ParamKeys : model[k].steps = (t + 1) * Len(AllBatches(trainSize)))

C13_Witness ==
    /\ pc = "epoch_loop"
    /\ testReturns = 2
    /\ t = 2
    /\ Len(AllBatches(trainSize)) = 2
    /\ optimizer.steps = 4
    /\ \A k \in ParamKeys : model[k].steps = 4

OneBackward == OutBackward(Eye(N), OnesLike(Eye(N)))

Times(n, m) == [r \in DOMAIN m |-> [c \in DOMAIN m[r] |-> n * m[r][c]]]

\* the values of inp.grad printed under the label
PrintedGrads(label) ==
    {agStdout[k][2] : k \in {j \in DOMAIN agStdout : agStdout[j][1] = label}}

\* C4: inp.grad is g times the number of out.backward calls since it was last
\* zeroed (or created): the first call prints g, the second 2g, and the call
\* after inp.grad.zero_() prints g again.
C4_GradientsAccumulate ==
    /\ ~inpGrad.isNone => inpGrad.val = Times(sinceZero, OneBackward)
    /\ inpGrad.isNone => sinceZero = 0
    /\ \A g \in PrintedGrads("First call") : g.val = OneBackward
    /\ \A g \in PrintedGrads("Second call") : g.val = Times(2, OneBackward)
    /\ \A g \in PrintedGrads("Call after zeroing gradients") : g.val = OneBackward
    /\ agPc = "print_second" => sinceZero = 2
    /\ agPc = "print_third" => sinceZero = 1

C4_Witness ==
    /\ agPc = "track_z"
    /\ PrintedGrads("Second call") = {[isNone |-> FALSE, val |-> Times(2, OneBackward)]}
    /\ PrintedGrads("Call after zeroing gradients") # {}
    /\ inpGrad.val = OneBackward
    /\ OneBackward[1][1] = 4
    /\ OneBackward[1][2] = 2

\* the square of the distance from v to the optimum (3,-2), which is f(v)
SquaredDistance(v) == F(v)

\* to is from - lr * grad f(from) in coordinate k, with grad f(v) = 2 * (v - (3,-2))
IsDescentStep(from, to, k) ==
    \E diff \in {DecSub(from[k], DecOfInt(Target[k]))} :
        \E slope \in {DecMul(DecOfInt(2), diff)} :
            \E move \in {DecMul(lr, slope)} :
                DecEq(to[k], DecSub(from[k], move))

StepsPrinted == {agStdout[k][2] : k \in {j \in DOMAIN agStdout : agStdout[j][1] = "Step"}}

\* C10: the loop starts from x = (0,0); each of its 15 iterations sets x to
\* x - lr * grad f(x) and brings x strictly closer to (3,-2); after the 15th
\* the distance is below 5% of the initial one (400 * d^2 < d0^2).
C10_DescentConverges ==
    /\ agPc \in {"descent_loop", "forward_y", "backward_y", "update_x", "zero_x_grad",
                 "print_x", "end"} => xStart = Vec(2, 0)
    /\ agPc = "descent_loop" /\ i = 0 => x = xStart
    /\ agPc \in {"zero_x_grad", "print_x"} =>
          /\ \A k \in 1..2 : IsDescentStep(xPrev, x, k)
          /\ \E now \in {SquaredDistance(x)}, before \in {SquaredDistance(xPrev)} :
                DecLess(now, before)
    /\ agPc = "end" =>
          /\ i = Iterations
          /\ StepsPrinted = 0..(Iterations - 1)
          /\ \E now \in {SquaredDistance(x)}, first \in {SquaredDistance(xStart)} :
                DecLess(DecMul(DecOfInt(400), now), first)

C10_Witness ==
    /\ agPc = "end"
    /\ i = Iterations
    /\ Cardinality(StepsPrinted) = Iterations
    /\ \E now \in {SquaredDistance(x)}, first \in {SquaredDistance(xStart)} :
          DecLess(now, first) /\ DecEq(first, DecOfInt(13))

\* the graph each backward statement of the script back-propagates
BackwardStatements ==
    [loss_backward |-> "loss", out_backward_1 |-> "out", out_backward_2 |-> "out",
     out_backward_3 |-> "out", backward_y |-> "y"]

\* C11: no backward call runs on a graph an earlier backward call released:
\* no backward statement raises; wherever the script stands at a backward
\* statement the graph is live and every earlier call on it passed
\* retain_graph=True; a call without it is the last on its graph; and the
\* descent loop meets each y.backward() with a graph not yet back-propagated.
C11_NoBackwardOnReleasedGraph ==
    /\ agPc # "raised"
    /\ agRaisedAt = "none"
    /\ \A p \in DOMAIN BackwardStatements :
          agPc = p =>
              /\ graphs[BackwardStatements[p]] = "live"
              /\ \A k \in DOMAIN backwardCalls[BackwardStatements[p]] :
                    backwardCalls[BackwardStatements[p]][k]
    /\ \A g \in DOMAIN backwardCalls :
          \A k \in DOMAIN backwardCalls[g] :
              ~backwardCalls[g][k] => k = Len(backwardCalls[g])
    /\ agPc = "backward_y" => backwardCalls["y"] = <<>>
    /\ agPc \in {"update_x", "zero_x_grad", "print_x"} => backwardCalls["y"] = <<FALSE>>
    /\ agPc = "end" => i = Iterations /\ Cardinality(StepsPrinted) = Iterations

C11_Witness ==
    /\ agPc = "end"
    /\ i = Iterations
    /\ backwardCalls["loss"] = <<FALSE>>
    /\ backwardCalls["out"] = <<TRUE, TRUE, TRUE>>
    /\ backwardCalls["y"] = <<FALSE>>
    /\ graphs = [g \in {"loss", "out", "y"} |-> IF g = "out" THEN "live" ELSE "freed"]

\* the values printed under the label, in the order printed
PrintedFlags(label) ==
    LET Labelled(e) == e[1] = label
    IN  [k \in 1..Len(SelectSeq(agStdout, Labelled)) |-> SelectSeq(agStdout, Labelled)[k][2]]

\* the statements after z_det = z.detach()
AfterDetach == {"make_x", "descent_loop", "forward_y", "backward_y", "update_x",
                "zero_x_grad", "print_x", "end"}

\* C12: with w and b requiring gradients, z = matmul(x,w)+b tracks gradients
\* when computed outside a no_grad block (printed True), does not when
\* computed inside one (printed False), tracks again when recomputed after
\* the block, and z.detach() does not track (printed False) while z still does.
C12_TrackingOffAndBack ==
    /\ RequiresGrad.w /\ RequiresGrad.b
    /\ gradEnabled <=> agPc \notin {"no_grad_z", "exit_no_grad"}
    /\ agPc = "enter_no_grad" => z.requires_grad
    /\ agPc = "exit_no_grad" => ~z.requires_grad
    /\ agPc = "detach_z" => z.requires_grad
    /\ agPc \in AfterDetach => z.requires_grad /\ ~z_det.requires_grad
    /\ IsPrefix(PrintedFlags("z.requires_grad"), <<TRUE, FALSE>>)
    /\ IsPrefix(PrintedFlags("z_det.requires_grad"), <<FALSE>>)
    /\ agPc \in {"retrack_z", "detach_z"} \cup AfterDetach =>
          PrintedFlags("z.requires_grad") = <<TRUE, FALSE>>
    /\ agPc \in AfterDetach => PrintedFlags("z_det.requires_grad") = <<FALSE>>

C12_Witness ==
    /\ agPc = "make_x"
    /\ gradEnabled
    /\ z.requires_grad
    /\ ~z_det.requires_grad
    /\ PrintedFlags("z.requires_grad") = <<TRUE, FALSE>>
    /\ PrintedFlags("z_det.requires_grad") = <<FALSE>>

(***************************************************************************)
(* Properties of CustomImageDataset, checked under SpecData                *)
(***************************************************************************)
\* the row of the annotations that index n names: line 1 is the header
RowOf(n) == csv[n + 2]

\* C7: for every index in range, plain or tensor, __getitem__ returns the
\* image of the row's file in the img_dir given to __init__ with the row's
\* label, transformed when a transform was supplied.
C7_GetItemReturnsSample ==
    dsPc \in {"returned", "raised"} =>
        result = Returned(disk[PathJoin(args.img_dir, RowOf(idx.value)[1])],
                          Tail(RowOf(idx.value)),
                          args.transform # "None")

\* what the call does instead: self.root_dir is not an attribute of the object
C7_GetItemRaises ==
    dsPc \in {"returned", "raised"} => result = Raised("AttributeError")

C7_Reached == dsPc = "raised" /\ idx.value = 0 /\ ~idx.tensor /\ args.transform = "None"

=============================================================================
